---- MODULE Spec2Model ----
(***************************************************************************)
(* A model of src/malloc.c: a first-fit free-list allocator on top of      *)
(* sbrk.  The machine is scaled down: memory is an array of cells, one     *)
(* cell per struct field or payload byte, and size_t / pointers are        *)
(* SizeBits wide, so that the wrap-around of size + META_SIZE and the      *)
(* size_t -> intptr_t conversion at the sbrk call are within reach.        *)
(* Block headers live in the same memory as the payloads, exactly as in    *)
(* the C program, so overlapping regions clobber each other.               *)
(***************************************************************************)
EXTENDS Integers, Naturals, Sequences, FiniteSets, TLC

\* ---------------------------------------------------------------- bounds
SizeBits == 5          \* width of size_t and of a pointer, in bits
HeapStart == 2         \* the program break before the first allocation
HeapLimit == 27        \* the highest break the system grants (resource limit)
MaxOps == 5            \* calls per run
MaxCalls == 8          \* calls per run of the two threads
MaxCallocs == 2        \* calls per run of the array allocator alone

\* ------------------------------------------------------- machine arithmetic
SIZE_MAX == 2^SizeBits - 1
INTPTR_MAX == SIZE_MAX \div 2
NULL == 0
SBRK_FAILED == SIZE_MAX                  \* (void *)-1
ToSizeT(x) == x % (SIZE_MAX + 1)         \* conversion to size_t
ToIntptr(v) == IF v > INTPTR_MAX THEN v - (SIZE_MAX + 1) ELSE v

\* struct block_meta, one cell per field
OFF_SIZE == 0
OFF_NEXT == 1
OFF_FREE == 2
OFF_MAGIC == 3
META_SIZE == 4
MAGIC_NEW == 305419896       \* 0x12345678
MAGIC_REUSED == 2004318071   \* 0x77777777
MAGIC_FREED == 1431655765    \* 0x55555555

\* the cells the process can touch without a fault: the heap up to the
\* highest break plus the tail of its last page (one header's worth)
MemTop == HeapLimit + META_SIZE
Cells == HeapStart..(MemTop - 1)
Mapped(a) == a \in Cells

\* ------------------------------------------------------------ memory access
\* s = [mem, brk, base, status, nsbrk, nfail]: the process state threaded
\* through a call, with the number of break-moving sbrk calls it made and
\* how many of them were refused.  e = [fail, slack, fwd]: what the environment decides during the
\* call: whether a growing sbrk is refused, whether cells past the break
\* are still accessible, and the direction of an overlapping memcpy.
Fault(s, A, e) == \E a \in A : ~Mapped(a) \/ (a >= s.brk /\ ~e.slack)

Probe(s, A, e) ==
  IF s.status # "ok" THEN s
  ELSE IF Fault(s, A, e) THEN [s EXCEPT !.status = "segv"]
  ELSE s

Store(s, a, v, e) ==
  IF s.status # "ok" THEN s
  ELSE IF Fault(s, {a}, e) THEN [s EXCEPT !.status = "segv"]
  ELSE [s EXCEPT !.mem[a] = v]

\* ------------------------------------------------------------------- sbrk
\* sbrk that returns the break it has set, not the one it found
sbrk_newbreak(s, increment, e) ==
  IF increment = 0 THEN [s |-> s, ret |-> s.brk]
  ELSE LET new == s.brk + increment
       IN IF new < HeapStart \/ new > HeapLimit \/ (increment > 0 /\ e.fail)
          THEN [s |-> [s EXCEPT !.nsbrk = @ + 1, !.nfail = @ + 1],
                ret |-> SBRK_FAILED]
          ELSE [s |-> [s EXCEPT !.brk = new, !.nsbrk = @ + 1], ret |-> new]

sbrk(s, increment, e) ==
  IF increment = 0 THEN [s |-> s, ret |-> s.brk]
  ELSE LET new == s.brk + increment
       IN IF new < HeapStart \/ new > HeapLimit \/ (increment > 0 /\ e.fail)
          THEN [s |-> [s EXCEPT !.nsbrk = @ + 1, !.nfail = @ + 1],
                ret |-> SBRK_FAILED]
          ELSE [s |-> [s EXCEPT !.brk = new, !.nsbrk = @ + 1], ret |-> s.brk]

\* -------------------------------------------------------- find_free_block
RECURSIVE find_loop(_, _, _, _, _, _)
find_loop(s, current, last, size, e, fuel) ==
  IF current = NULL THEN [s |-> s, ret |-> NULL, last |-> last]
  ELSE IF Fault(s, {current + OFF_FREE}, e)
  THEN [s |-> [s EXCEPT !.status = "segv"], ret |-> NULL, last |-> last]
  ELSE IF s.mem[current + OFF_FREE] # 0 /\ Fault(s, {current + OFF_SIZE}, e)
  THEN [s |-> [s EXCEPT !.status = "segv"], ret |-> NULL, last |-> last]
  ELSE IF s.mem[current + OFF_FREE] # 0 /\ s.mem[current + OFF_SIZE] >= size
  THEN [s |-> s, ret |-> current, last |-> last]
  ELSE IF Fault(s, {current + OFF_NEXT}, e)
  THEN [s |-> [s EXCEPT !.status = "segv"], ret |-> NULL, last |-> last]
  ELSE IF fuel = 0
  THEN [s |-> [s EXCEPT !.status = "hang"], ret |-> NULL, last |-> last]
  ELSE find_loop(s, s.mem[current + OFF_NEXT], current, size, e, fuel - 1)

find_free_block(s, last, size, e) ==
  find_loop(s, s.base, last, size, e, MemTop)

\* ---------------------------------------------------------- request_space
\* after(r): r is what sbrk(size + META_SIZE) gave
request_space(s, last, size, e) ==
  LET block == sbrk(s, 0, e).ret
      fill(s0) ==
        Store(Store(Store(Store(s0, block + OFF_SIZE, size, e),
                          block + OFF_NEXT, NULL, e),
                    block + OFF_FREE, 0, e),
              block + OFF_MAGIC, MAGIC_NEW, e)
      done(s5) == [s |-> s5, ret |-> IF s5.status = "ok" THEN block ELSE NULL]
      after(r) ==
        IF block # r.ret
        THEN [s |-> [r.s EXCEPT !.status = "abort"], ret |-> NULL]
        ELSE IF r.ret = SBRK_FAILED
        THEN [s |-> r.s, ret |-> NULL]
        ELSE done(fill(IF last # NULL
                       THEN Store(r.s, last + OFF_NEXT, block, e)
                       ELSE r.s))
  IN after(sbrk(s, ToIntptr(ToSizeT(size + META_SIZE)), e))

\* ----------------------------------------------------------------- malloc
\* first(r), grown(r): r is what request_space gave; found(f): f is what
\* find_free_block gave
malloc(s, size, e) ==
  LET first(r) ==
        IF r.ret = NULL THEN [s |-> r.s, ret |-> NULL]
        ELSE [s |-> [r.s EXCEPT !.base = r.ret], ret |-> r.ret + META_SIZE]
      grown(r) ==
        IF r.ret = NULL THEN [s |-> r.s, ret |-> NULL]
        ELSE [s |-> r.s, ret |-> r.ret + META_SIZE]
      reused(s2, block) ==
        [s |-> s2, ret |-> IF s2.status = "ok" THEN block + META_SIZE ELSE NULL]
      found(f) ==
        IF f.s.status # "ok" THEN [s |-> f.s, ret |-> NULL]
        ELSE IF f.ret = NULL
        THEN grown(request_space(f.s, f.last, size, e))
        ELSE reused(Store(Store(f.s, f.ret + OFF_FREE, 0, e),
                          f.ret + OFF_MAGIC, MAGIC_REUSED, e), f.ret)
  IN IF size <= 0 THEN [s |-> s, ret |-> NULL]
     ELSE IF s.base = NULL
     THEN first(request_space(s, NULL, size, e))
     ELSE found(find_free_block(s, s.base, size, e))

\* ------------------------------------------------------------------- free
get_block_ptr(ptr) == ptr - META_SIZE

\* free without its two assertions
free_noassert(s, ptr, e) ==
  IF ptr = NULL THEN s
  ELSE LET block_ptr == get_block_ptr(ptr)
       IN Store(Store(s, block_ptr + OFF_FREE, 1, e),
                block_ptr + OFF_MAGIC, MAGIC_FREED, e)

free(s, ptr, e) ==
  IF ptr = NULL THEN s
  ELSE LET block_ptr == get_block_ptr(ptr)
           s0 == Probe(s, {block_ptr + OFF_FREE}, e)
       IN IF s0.status # "ok" THEN s0
          ELSE IF s0.mem[block_ptr + OFF_FREE] # 0
          THEN [s0 EXCEPT !.status = "abort"]
          ELSE LET s1 == Probe(s0, {block_ptr + OFF_MAGIC}, e)
               IN IF s1.status # "ok" THEN s1
                  ELSE IF ~(s1.mem[block_ptr + OFF_MAGIC] = MAGIC_REUSED
                            \/ s1.mem[block_ptr + OFF_MAGIC] = MAGIC_NEW)
                  THEN [s1 EXCEPT !.status = "abort"]
                  ELSE Store(Store(s1, block_ptr + OFF_FREE, 1, e),
                             block_ptr + OFF_MAGIC, MAGIC_FREED, e)

\* ------------------------------------------------------- memcpy / memset
\* memcpy of n cells: a range that leaves the mapped cells faults.  Overlapping ranges are
\* undefined for memcpy: the copy runs upwards or downwards (e.fwd).
RECURSIVE copy_up(_, _, _, _, _)
copy_up(mem, dst, src, i, n) ==
  IF i = n THEN mem
  ELSE copy_up([mem EXCEPT ![dst + i] = mem[src + i]], dst, src, i + 1, n)

RECURSIVE copy_down(_, _, _, _)
copy_down(mem, dst, src, i) ==
  IF i = 0 THEN mem
  ELSE copy_down([mem EXCEPT ![dst + i - 1] = mem[src + i - 1]], dst, src, i - 1)

memcpy(s, dst, src, n, e) ==
  IF s.status # "ok" \/ n = 0 THEN s
  ELSE IF Fault(s, {dst, dst + n - 1, src, src + n - 1}, e)
  THEN [s EXCEPT !.status = "segv"]
  ELSE [s EXCEPT !.mem = IF e.fwd THEN copy_up(s.mem, dst, src, 0, n)
                         ELSE copy_down(s.mem, dst, src, n)]

memset(s, dst, c, n, e) ==
  IF s.status # "ok" \/ n = 0 THEN s
  ELSE IF Fault(s, {dst, dst + n - 1}, e)
  THEN [s EXCEPT !.status = "segv"]
  ELSE [s EXCEPT !.mem = [a \in Cells |->
                            IF a >= dst /\ a < dst + n THEN c ELSE s.mem[a]]]

\* ---------------------------------------------------------------- realloc
\* realloc that forgets to release the old region
realloc_nofree(s, ptr, size, e) ==
  LET block_ptr == get_block_ptr(ptr)
      s0 == Probe(s, {block_ptr + OFF_SIZE}, e)
      moved(m) ==
        IF m.s.status # "ok" \/ m.ret = NULL
        THEN [s |-> m.s, ret |-> NULL]
        ELSE LET s1 == Probe(m.s, {block_ptr + OFF_SIZE}, e)
                 s2 == IF s1.status # "ok" THEN s1
                       ELSE memcpy(s1, m.ret, ptr,
                                   s1.mem[block_ptr + OFF_SIZE], e)
              IN [s |-> s2, ret |-> IF s2.status = "ok" THEN m.ret ELSE NULL]
  IN IF ptr = NULL THEN malloc(s, size, e)
     ELSE IF s0.status # "ok" THEN [s |-> s0, ret |-> NULL]
     ELSE IF s0.mem[block_ptr + OFF_SIZE] >= size
     THEN [s |-> s0, ret |-> ptr]
     ELSE moved(malloc(s0, size, e))

\* realloc that keeps the region only when it is strictly larger
realloc_strict(s, ptr, size, e) ==
  LET block_ptr == get_block_ptr(ptr)
      s0 == Probe(s, {block_ptr + OFF_SIZE}, e)
      moved(m) ==
        IF m.s.status # "ok" \/ m.ret = NULL
        THEN [s |-> m.s, ret |-> NULL]
        ELSE LET s1 == Probe(m.s, {block_ptr + OFF_SIZE}, e)
                 s2 == IF s1.status # "ok" THEN s1
                       ELSE memcpy(s1, m.ret, ptr,
                                   s1.mem[block_ptr + OFF_SIZE], e)
                  s3 == free(s2, ptr, e)
              IN [s |-> s3, ret |-> IF s3.status = "ok" THEN m.ret ELSE NULL]
  IN IF ptr = NULL THEN malloc(s, size, e)
     ELSE IF s0.status # "ok" THEN [s |-> s0, ret |-> NULL]
     ELSE IF s0.mem[block_ptr + OFF_SIZE] > size
     THEN [s |-> s0, ret |-> ptr]
     ELSE moved(malloc(s0, size, e))

\* realloc that treats an absent pointer like any other
realloc_nodelegate(s, ptr, size, e) ==
  LET block_ptr == get_block_ptr(ptr)
      s0 == Probe(s, {block_ptr + OFF_SIZE}, e)
      moved(m) ==
        IF m.s.status # "ok" \/ m.ret = NULL
        THEN [s |-> m.s, ret |-> NULL]
        ELSE LET s1 == Probe(m.s, {block_ptr + OFF_SIZE}, e)
                 s2 == IF s1.status # "ok" THEN s1
                       ELSE memcpy(s1, m.ret, ptr,
                                   s1.mem[block_ptr + OFF_SIZE], e)
                 s3 == free(s2, ptr, e)
             IN [s |-> s3, ret |-> IF s3.status = "ok" THEN m.ret ELSE NULL]
  IN IF s0.status # "ok" THEN [s |-> s0, ret |-> NULL]
     ELSE IF s0.mem[block_ptr + OFF_SIZE] >= size
     THEN [s |-> s0, ret |-> ptr]
     ELSE moved(malloc(s0, size, e))

\* moved(m): m is what the inner malloc gave
realloc(s, ptr, size, e) ==
  LET block_ptr == get_block_ptr(ptr)
      s0 == Probe(s, {block_ptr + OFF_SIZE}, e)
      moved(m) ==
        IF m.s.status # "ok" \/ m.ret = NULL
        THEN [s |-> m.s, ret |-> NULL]
        ELSE LET s1 == Probe(m.s, {block_ptr + OFF_SIZE}, e)
                 s2 == IF s1.status # "ok" THEN s1
                       ELSE memcpy(s1, m.ret, ptr,
                                   s1.mem[block_ptr + OFF_SIZE], e)
                  s3 == free(s2, ptr, e)
              IN [s |-> s3, ret |-> IF s3.status = "ok" THEN m.ret ELSE NULL]
  IN IF ptr = NULL THEN malloc(s, size, e)
     ELSE IF s0.status # "ok" THEN [s |-> s0, ret |-> NULL]
     ELSE IF s0.mem[block_ptr + OFF_SIZE] >= size
     THEN [s |-> s0, ret |-> ptr]
     ELSE moved(malloc(s0, size, e))

\* ----------------------------------------------------------------- calloc
\* calloc without the overflow test
calloc_nocheck(s, nelem, elsize, e) ==
  LET size == ToSizeT(nelem * elsize)
      done(s1, ptr) ==
        [s |-> s1, ret |-> IF s1.status = "ok" THEN ptr ELSE NULL,
         size |-> size, called |-> TRUE]
      zeroed(m) ==
        done(IF m.ret # NULL THEN memset(m.s, m.ret, 0, size, e) ELSE m.s,
             m.ret)
  IN zeroed(malloc(s, size, e))

\* zeroed(m): m is what malloc gave
calloc(s, nelem, elsize, e) ==
  LET size == ToSizeT(nelem * elsize)
      done(s1, ptr) ==
        [s |-> s1, ret |-> IF s1.status = "ok" THEN ptr ELSE NULL,
         size |-> size, called |-> TRUE]
      zeroed(m) ==
        done(IF m.ret # NULL THEN memset(m.s, m.ret, 0, size, e) ELSE m.s,
             m.ret)
  IN IF nelem > 0 /\ SIZE_MAX \div nelem < elsize
     THEN [s |-> s, ret |-> NULL, size |-> 0, called |-> FALSE]
     ELSE zeroed(malloc(s, size, e))

\* ------------------------------------------------------------------ state
\* mem, brk, global_base: the process.  status: "ok" while it runs, else how
\* it ended (abort: a failed assert; segv: a fault; hang: an endless loop).
\* live: the pointers the caller holds, with the size it asked for.
\* released: pointers the caller gave back.  call: the call that has just
\* returned, with the state it started from; "none" once the caller moved on.
VARIABLES mem, brk, global_base, status, live, released, call, nops

vars == <<mem, brk, global_base, status, live, released, call, nops>>

\* the process state a call starts from
Cur == [mem |-> mem, brk |-> brk, base |-> global_base, status |-> "ok",
        nsbrk |-> 0, nfail |-> 0]

\* One adverse event per call covers every outcome: a refused growth aborts
\* the call whatever the rest, and a fault ends it whatever the copy does.
Calm == [fail |-> FALSE, slack |-> TRUE, fwd |-> TRUE]
Envs == {Calm, [Calm EXCEPT !.fail = TRUE], [Calm EXCEPT !.slack = FALSE],
         [Calm EXCEPT !.fwd = FALSE]}
AccessEnvs == {Calm, [Calm EXCEPT !.slack = FALSE]}

\* requests a caller makes: small sizes, a negative one (SIZE_MAX once it is
\* a size_t, so that size + META_SIZE wraps to META_SIZE - 1), and a size
\* whose sum with META_SIZE reads as -(META_SIZE + 1) once it is an intptr_t
Undo == SIZE_MAX - 2 * META_SIZE
ReqInts == {-1, 0, 1, 2, Undo}
Big == SIZE_MAX \div 2 + 1
CallocArgs == {<<0, 1>>, <<1, 1>>, <<1, 2>>, <<2, 1>>, <<2, Big>>, <<Big, 2>>,
               <<1, Big>>, <<1, SIZE_MAX>>}
Bytes == {0, 1}
WriteOffsets == {0, 1}

Idle == [op |-> "none"]

Init ==
  /\ mem = [a \in Cells |-> 0]
  /\ brk = HeapStart
  /\ global_base = NULL
  /\ status = "ok"
  /\ live = << >>
  /\ released = << >>
  /\ call = Idle
  /\ nops = 0

Ready == status = "ok" /\ call = Idle /\ nops < MaxOps

\* what a call records of the state it started from
Pre == [mem |-> mem, brk |-> brk, base |-> global_base, live |-> live,
        released |-> released]

Commit(s) ==
  /\ mem' = s.mem
  /\ brk' = s.brk
  /\ global_base' = s.base
  /\ status' = s.status
  /\ nops' = nops + 1

Without(f, p) == [q \in DOMAIN f \ {p} |-> f[q]]

\* the caller's books after a call handed out ptr for a request of n bytes
Issue(ptr, n) ==
  /\ live' = (ptr :> n) @@ live
  /\ released' = Without(released, ptr)

Malloc ==
  /\ Ready
  /\ \E n \in ReqInts, e \in Envs :
       \E r \in {malloc(Cur, ToSizeT(n), e)} :
          /\ Commit(r.s)
          /\ call' = [op |-> "malloc", arg |-> n, size |-> ToSizeT(n),
                      ret |-> r.ret, nsbrk |-> r.s.nsbrk,
                      nfail |-> r.s.nfail, env |-> e, pre |-> Pre]
          /\ IF r.s.status = "ok" /\ r.ret # NULL
             THEN Issue(r.ret, ToSizeT(n))
             ELSE UNCHANGED <<live, released>>

Free ==
  /\ Ready
  /\ \E ptr \in DOMAIN live \cup DOMAIN released \cup {NULL},
        e \in AccessEnvs :
       \E s \in {free(Cur, ptr, e)} :
          /\ Commit(s)
          /\ call' = [op |-> "free", ptr |-> ptr, nsbrk |-> s.nsbrk,
                      env |-> e, pre |-> Pre]
          /\ IF s.status = "ok" /\ ptr # NULL
             THEN /\ live' = Without(live, ptr)
                  /\ released' = (ptr :> IF ptr \in DOMAIN live THEN live[ptr]
                                          ELSE released[ptr]) @@ released
             ELSE UNCHANGED <<live, released>>

Realloc ==
  /\ Ready
  /\ \E ptr \in DOMAIN live \cup {NULL}, n \in ReqInts, e \in Envs :
       \E r \in {realloc(Cur, ptr, ToSizeT(n), e)} :
          /\ Commit(r.s)
          /\ call' = [op |-> "realloc", ptr |-> ptr, arg |-> n,
                      size |-> ToSizeT(n), ret |-> r.ret,
                      nsbrk |-> r.s.nsbrk, nfail |-> r.s.nfail,
                      env |-> e, pre |-> Pre]
          /\ IF r.s.status = "ok" /\ r.ret # NULL /\ r.ret # ptr
             THEN /\ live' = (r.ret :> ToSizeT(n)) @@ Without(live, ptr)
                  /\ released' = IF ptr = NULL THEN Without(released, r.ret)
                                 ELSE Without((ptr :> live[ptr]) @@ released,
                                              r.ret)
             ELSE UNCHANGED <<live, released>>

CallocCall(nelem, elsize, e) ==
  \E r \in {calloc(Cur, nelem, elsize, e)} :
     /\ Commit(r.s)
     /\ call' = [op |-> "calloc", nelem |-> nelem, elsize |-> elsize,
                 size |-> r.size, called |-> r.called, ret |-> r.ret,
                 nsbrk |-> r.s.nsbrk, nfail |-> r.s.nfail, env |-> e,
                 pre |-> Pre]
     /\ IF r.s.status = "ok" /\ r.ret # NULL
        THEN Issue(r.ret, r.size)
        ELSE UNCHANGED <<live, released>>

Calloc ==
  /\ Ready
  /\ \E a \in CallocArgs, e \in Envs : CallocCall(a[1], a[2], e)

\* the caller stores one byte into a region it holds
Write ==
  /\ Ready
  /\ \E ptr \in DOMAIN live, v \in Bytes, e \in AccessEnvs :
       \E i \in {o \in WriteOffsets : o < live[ptr]} :
         \E s \in {Store(Cur, ptr + i, v, e)} :
            /\ Commit(s)
            /\ call' = [op |-> "write", ptr |-> ptr, off |-> i, val |-> v,
                        env |-> e, pre |-> Pre]
            /\ UNCHANGED <<live, released>>

\* the caller takes the result and goes on
Return ==
  /\ status = "ok" /\ call # Idle
  /\ call' = Idle
  /\ UNCHANGED <<mem, brk, global_base, status, live, released, nops>>

Next == Malloc \/ Free \/ Realloc \/ Calloc \/ Write \/ Return

Spec == Init /\ [][Next]_vars

\* calloc alone, over every pair of size_t arguments
CallocAny ==
  /\ Ready /\ nops < MaxCallocs
  /\ \E nelem \in 0..SIZE_MAX, elsize \in 0..SIZE_MAX, e \in Envs :
       CallocCall(nelem, elsize, e)

NextCalloc == CallocAny \/ Return

SpecCalloc == Init /\ [][NextCalloc]_vars

\* the public operations used within their input constraints: a positive
\* size, a pointer that is absent or live
ProperMalloc == Malloc /\ call'.arg > 0
ProperFree == Free /\ call'.ptr \in DOMAIN live \cup {NULL}
ProperRealloc == Realloc /\ call'.arg > 0

NextProper ==
  ProperMalloc \/ ProperFree \/ ProperRealloc \/ Calloc \/ Write \/ Return

SpecProper == Init /\ [][NextProper]_vars

\* ----------------------------------------------------------- two threads
\* Two threads call malloc with no lock.  Each runs the statements of
\* malloc, find_free_block and request_space in order; the steps of the two
\* interleave at the points where one of them reads or writes the shared
\* chain or the break.  call holds both frames, whether two calls ever ran
\* at the same time (raced), and the races seen so far.
Threads == {1, 2}
ThreadSizes == {1}
Other(t) == CHOOSE u \in Threads : u # t

IdleFrame == [pc |-> "idle", size |-> 0, last |-> NULL, block |-> NULL,
              ret |-> NULL]

InitThreads ==
  /\ mem = [a \in Cells |-> 0]
  /\ brk = HeapStart
  /\ global_base = NULL
  /\ status = "ok"
  /\ live = << >>
  /\ released = << >>
  /\ call = [op |-> "threads", frames |-> [t \in Threads |-> IdleFrame],
             raced |-> FALSE, seen |-> {}]
  /\ nops = 0

At(t, pc) == status = "ok" /\ call.frames[t].pc = pc

\* thread t enters malloc(size) and tests global_base
Enter(t) ==
  /\ At(t, "idle") /\ nops < MaxCalls
  /\ \E size \in ThreadSizes :
       call' = [call EXCEPT
                  !.frames[t] = [pc |-> IF global_base = NULL THEN "query"
                                        ELSE "find",
                                 size |-> size, last |-> global_base,
                                 block |-> NULL, ret |-> NULL],
                  !.raced = @ \/ call.frames[Other(t)].pc # "idle"]
  /\ nops' = nops + 1
  /\ UNCHANGED <<mem, brk, global_base, status, live, released>>

\* thread t walks the chain: find_free_block(&last, size)
Find(t) ==
  /\ At(t, "find")
  /\ \E f \in {find_free_block(Cur, call.frames[t].last,
                                 call.frames[t].size, Calm)} :
       call' = [call EXCEPT !.frames[t].last = f.last,
                            !.frames[t].block = f.ret,
                            !.frames[t].pc = IF f.ret = NULL THEN "query"
                                             ELSE "flip"]
  /\ UNCHANGED <<mem, brk, global_base, status, live, released, nops>>

\* thread t asks where the break is: block = sbrk(0)
Query(t) ==
  /\ At(t, "query")
  /\ call' = [call EXCEPT !.frames[t].block = sbrk(Cur, 0, Calm).ret,
                          !.frames[t].pc = "grow"]
  /\ UNCHANGED <<mem, brk, global_base, status, live, released, nops>>

\* thread t moves the break, request = sbrk(size + META_SIZE), and asserts
\* that request is the block it asked about
Grow(t) ==
  /\ At(t, "grow")
  /\ \E r \in {sbrk(Cur, ToIntptr(ToSizeT(call.frames[t].size + META_SIZE)),
                    Calm)} :
       /\ brk' = r.s.brk
       /\ IF call.frames[t].block # r.ret
          THEN /\ status' = "abort"
               /\ call' = [call EXCEPT
                             !.seen = IF r.ret # SBRK_FAILED
                                      THEN @ \cup {"assert"} ELSE @]
          ELSE /\ status' = status
               /\ call' = [call EXCEPT !.frames[t].pc = "link"]
  /\ UNCHANGED <<mem, global_base, live, released, nops>>

\* thread t links the new block behind the tail it found, fills in the
\* header and returns block + 1 (the first caller sets global_base)
Link(t) ==
  /\ At(t, "link")
  /\ LET f == call.frames[t]
         old == IF f.last = NULL THEN NULL ELSE mem[f.last + OFF_NEXT]
         written(s) ==
           /\ mem' = s.mem
           /\ status' = s.status
           /\ global_base' = IF f.last = NULL THEN f.block ELSE global_base
           /\ call' = [call EXCEPT
                         !.frames[t].pc = "idle",
                         !.frames[t].ret = f.block + META_SIZE,
                         !.seen = IF old \notin {NULL, f.block}
                                  THEN @ \cup {"lost"} ELSE @]
     IN written(Store(Store(Store(Store(
                  IF f.last # NULL
                  THEN Store(Cur, f.last + OFF_NEXT, f.block, Calm)
                  ELSE Cur,
                  f.block + OFF_SIZE, f.size, Calm),
                  f.block + OFF_NEXT, NULL, Calm),
                  f.block + OFF_FREE, 0, Calm),
                  f.block + OFF_MAGIC, MAGIC_NEW, Calm))
  /\ live' = (call.frames[t].block + META_SIZE :> call.frames[t].size) @@ live
  /\ UNCHANGED <<brk, released, nops>>

\* thread t takes the free block it found and returns block + 1
Flip(t) ==
  /\ At(t, "flip")
  /\ LET f == call.frames[t]
         written(s) ==
           /\ mem' = s.mem
           /\ status' = s.status
           /\ call' = [call EXCEPT
                         !.frames[t].pc = "idle",
                         !.frames[t].ret = f.block + META_SIZE,
                         !.seen = IF mem[f.block + OFF_FREE] = 0
                                  THEN @ \cup {"double"} ELSE @]
     IN written(Store(Store(Cur, f.block + OFF_FREE, 0, Calm),
                      f.block + OFF_MAGIC, MAGIC_REUSED, Calm))
  /\ live' = (call.frames[t].block + META_SIZE :> call.frames[t].size) @@ live
  /\ UNCHANGED <<brk, global_base, released, nops>>

\* with no call in progress, a region is given back
Release ==
  /\ status = "ok" /\ nops < MaxCalls
  /\ \A t \in Threads : call.frames[t].pc = "idle"
  /\ \E ptr \in DOMAIN live :
       \E s \in {free(Cur, ptr, Calm)} :
         /\ mem' = s.mem
         /\ status' = s.status
         /\ live' = Without(live, ptr)
         /\ released' = (ptr :> live[ptr]) @@ released
  /\ nops' = nops + 1
  /\ UNCHANGED <<brk, global_base, call>>

NextThreads ==
  \/ \E t \in Threads :
       Enter(t) \/ Find(t) \/ Query(t) \/ Grow(t) \/ Link(t) \/ Flip(t)
  \/ Release

SpecThreads == InitThreads /\ [][NextThreads]_vars

\* ------------------------------------------------------- views of the heap
\* the block headers reached from base through the next links of memory m
RECURSIVE ChainFrom(_, _, _)
ChainFrom(m, current, fuel) ==
  IF current = NULL \/ fuel = 0
     \/ ~(Mapped(current) /\ Mapped(current + META_SIZE - 1))
  THEN << >>
  ELSE <<current>> \o ChainFrom(m, m[current + OFF_NEXT], fuel - 1)

Chain(m, base) == ChainFrom(m, base, MemTop)

Blocks(m, base) == {Chain(m, base)[i] : i \in 1..Len(Chain(m, base))}

IsFree(m, b) == m[b + OFF_FREE] # 0
Fits(m, b, size) == IsFree(m, b) /\ m[b + OFF_SIZE] >= size

\* [a1, a2) and [b1, b2) share no cell
Disjoint(a1, a2, b1, b2) == a2 <= b1 \/ b2 <= a1

\* the call returned to its caller
Returned(op) == call.op = op /\ status = "ok"

\* nothing of the process moved during the call
Untouched ==
  mem = call.pre.mem /\ brk = call.pre.brk /\ global_base = call.pre.base

\* the record behind the pointer a release or resize was called with
LivePtr == call.ptr # NULL /\ call.ptr \in DOMAIN call.pre.live
PreBlock == get_block_ptr(call.ptr)
PreSize == call.pre.mem[PreBlock + OFF_SIZE]

\* the first record of chain ch, in chain order, that is free and large
\* enough; NULL when there is none
RECURSIVE FirstFit(_, _, _)
FirstFit(m, ch, size) ==
  IF ch = << >> THEN NULL
  ELSE IF Fits(m, Head(ch), size) THEN Head(ch)
  ELSE FirstFit(m, Tail(ch), size)

\* the records of chain ch before record b (all of them when b is not in it)
RECURSIVE Before(_, _)
Before(ch, b) ==
  IF ch = << >> \/ Head(ch) = b THEN {}
  ELSE {Head(ch)} \cup Before(Tail(ch), b)

PreChain == Chain(call.pre.mem, call.pre.base)
PreFit == FirstFit(call.pre.mem, PreChain, call.size)

\* --------------------------------------------------------------------- C1
\* C1: the region [p, p + size) a successful allocate(size) returns shares no
\* cell with the header or the payload of any other record of the chain.
C1_NoOverlap ==
  (Returned("malloc") /\ call.ret # NULL) =>
    \A b \in Blocks(mem, global_base) \ {get_block_ptr(call.ret)} :
      Disjoint(call.ret, call.ret + call.size,
               b, b + META_SIZE + mem[b + OFF_SIZE])

\* --------------------------------------------------------------------- C2
\* C2: a pointer p obtained from allocate(n) and released since is what the
\* next allocate(m), 0 < m <= n, returns, without heap growth, provided no
\* free record earlier in the chain has size >= m; in general allocate
\* returns the payload of the first record in chain order that is free and
\* has size >= m.
C2_FirstFitReuse ==
  (Returned("malloc") /\ call.size > 0) =>
    /\ PreFit # NULL =>
         call.ret = PreFit + META_SIZE /\ call.nsbrk = 0
    /\ \A p \in DOMAIN call.pre.released :
         (/\ call.pre.released[p] >= call.size
          /\ \A b \in Before(PreChain, get_block_ptr(p)) :
               ~Fits(call.pre.mem, b, call.size))
         => call.ret = p /\ call.nsbrk = 0

\* --------------------------------------------------------------------- C3
\* C3: when the heap growth of allocate(size), size > 0, is refused, allocate
\* returns null and leaves the chain as it was.
C3_GrowthFailureReturnsNull ==
  (call.op = "malloc" /\ call.size > 0 /\ call.nfail > 0) =>
    /\ status = "ok"
    /\ call.ret = NULL
    /\ Untouched

\* --------------------------------------------------------------------- C4
\* C4: allocate(0) and allocate of a negative request return null, make no
\* call that moves the break and leave the chain unchanged.
C4_NonPositiveRejected ==
  (Returned("malloc") /\ call.arg <= 0) =>
    /\ call.ret = NULL
    /\ call.nsbrk = 0
    /\ Untouched

C6_ResizeWithinRecord ==
  (call.op = "realloc" /\ LivePtr /\ call.size <= PreSize) =>
    /\ status = "ok" =>
         call.ret = call.ptr /\ call.nsbrk = 0 /\ Untouched
    /\ status # "ok" => status = "segv" /\ ~call.env.slack

\* a live region is resized to less than its record holds
C6_Witness ==
  /\ Returned("realloc") /\ LivePtr
  /\ call.size > 0 /\ call.size < PreSize
  /\ call.ret = call.ptr
  /\ ~IsFree(mem, PreBlock)

BadRelease ==
  \/ call.pre.mem[PreBlock + OFF_FREE] # 0
  \/ call.pre.mem[PreBlock + OFF_MAGIC] \notin {MAGIC_NEW, MAGIC_REUSED}

C8_BadReleaseIsFatal ==
  (call.op = "free" /\ call.ptr # NULL /\ BadRelease) =>
    /\ status \in {"abort", "segv"}
    /\ call.env.slack => status = "abort"
    /\ Untouched

\* a pointer is released a second time, with nothing handed out in between
C8_Witness ==
  /\ call.op = "free"
  /\ call.ptr \in DOMAIN call.pre.released
  /\ call.pre.mem[PreBlock + OFF_FREE] = 1
  /\ call.pre.mem[PreBlock + OFF_MAGIC] = MAGIC_FREED
  /\ status = "abort"

\* --------------------------------------------------------------------- C9
\* C9: zeroedAllocate(count, elementSize) returns null without calling
\* allocate whenever count > 0 and elementSize > SIZE_MAX / count; otherwise
\* the size it passes to allocate is the product count * elementSize itself.
C9_OverflowRejected ==
  call.op = "calloc" =>
    IF call.nelem > 0 /\ call.elsize > SIZE_MAX \div call.nelem
    THEN /\ status = "ok" /\ call.ret = NULL
         /\ ~call.called /\ call.nsbrk = 0
         /\ Untouched
    ELSE call.called /\ call.size = call.nelem * call.elsize

\* a product past SIZE_MAX whose wrapped value is a size allocate would serve
C9_Witness ==
  /\ Returned("calloc")
  /\ call.nelem > 1 /\ call.elsize > SIZE_MAX \div call.nelem
  /\ ToSizeT(call.nelem * call.elsize) \in 1..2
  /\ call.ret = NULL

\* -------------------------------------------------------------------- C10
\* C10: for count and elementSize whose product does not overflow,
\* zeroedAllocate returns a region whose count * elementSize bytes all read
\* zero, or null when the underlying allocate fails.
C10_ZeroedOrNull ==
  (call.op = "calloc" /\ call.called /\ call.env.slack) =>
    /\ status = "ok"
    /\ call.nfail > 0 => call.ret = NULL
    /\ call.ret # NULL =>
         \A i \in 0..(call.nelem * call.elsize - 1) :
           Mapped(call.ret + i) /\ mem[call.ret + i] = 0

\* -------------------------------------------------------------------- C11
\* the record a successful allocate handed out, and the chain after the call
RetBlock == get_block_ptr(call.ret)
PostChain == Chain(mem, global_base)

\* the scenario, with sizes 1 and 2 for 16 and 32: the second, the fourth
\* and the fifth call, recognised by the caller's books before the call
ScenarioSecond ==
  Returned("malloc") => \A p1 \in DOMAIN call.pre.live :
    (/\ nops = 2 /\ call.size = 1
     /\ call.pre.live = (p1 :> 1) /\ call.pre.released = << >>
     /\ call.pre.brk = HeapStart + META_SIZE + 1) =>
      /\ call.ret # NULL /\ call.ret > p1
      /\ call.nsbrk = 1 /\ brk = call.pre.brk + META_SIZE + 1

ScenarioFourth ==
  Returned("malloc") =>
  \A p1 \in DOMAIN call.pre.released, p2 \in DOMAIN call.pre.live :
    (/\ nops = 4 /\ call.size = 1
     /\ call.pre.released = (p1 :> 1) /\ call.pre.live = (p2 :> 1)
     /\ p2 > p1) =>
      call.ret = p1 /\ call.nsbrk = 0 /\ brk = call.pre.brk

ScenarioFifth ==
  Returned("malloc") => \A p1, p2 \in DOMAIN call.pre.live :
    (/\ nops = 5 /\ call.size = 2
     /\ p1 < p2 /\ call.pre.live = (p1 :> 1) @@ (p2 :> 1)
     /\ call.pre.released = << >>
     /\ call.pre.mem[get_block_ptr(p1) + OFF_MAGIC] = MAGIC_REUSED) =>
      /\ call.ret # NULL /\ call.ret > p2 + 1
      /\ call.nsbrk = 1 /\ brk = call.pre.brk + META_SIZE + 2

\* a record smaller than the request is never the one handed out
NeverTooSmall ==
  (Returned("malloc") /\ call.ret # NULL /\ call.nsbrk = 0) =>
    call.pre.mem[RetBlock + OFF_SIZE] >= call.size

\* with no free record large enough, one record is added, past all others
OneNewRecordPastAll ==
  (Returned("malloc") /\ call.size > 0 /\ PreFit = NULL) =>
    /\ call.ret # NULL
    /\ PostChain = Append(PreChain, RetBlock)
    /\ \A b \in Blocks(call.pre.mem, call.pre.base) :
         RetBlock >= b + META_SIZE + call.pre.mem[b + OFF_SIZE]

\* C11: from an empty chain, allocate(16) twice gives p1 and then p2 after
\* p1 through two growths; after release(p1), allocate(16) returns p1 with
\* no growth; allocate(32) then returns a region beyond p2 through a third
\* growth.  In general a free record smaller than the request is never
\* chosen, and with no free record large enough exactly one record is
\* created, past every existing record.
C11_ScenarioAndRule ==
  /\ ScenarioSecond /\ ScenarioFourth /\ ScenarioFifth
  /\ NeverTooSmall
  /\ OneNewRecordPastAll

\* -------------------------------------------------------------------- C12
\* the process state the call started from
PreState ==
  [mem |-> call.pre.mem, brk |-> call.pre.brk, base |-> call.pre.base,
   status |-> "ok", nsbrk |-> 0, nfail |-> 0]

\* the call ended as r says: same memory, break, head, outcome and result
EndsAs(r) ==
  /\ mem = r.s.mem /\ brk = r.s.brk /\ global_base = r.s.base
  /\ status = r.s.status
  /\ call.ret = r.ret
  /\ call.nsbrk = r.s.nsbrk /\ call.nfail = r.s.nfail

\* C12: resize(absent, n) ends as allocate(n) does from the same state: same
\* result, same chain, same heap boundary; for n = 0 it returns null and
\* the heap does not grow.
C12_ResizeAbsentIsAllocate ==
  (call.op = "realloc" /\ call.ptr = NULL) =>
    /\ EndsAs(malloc(PreState, call.size, call.env))
    /\ call.size = 0 =>
         status = "ok" /\ call.ret = NULL /\ call.nsbrk = 0 /\ Untouched

\* resize(absent, n) took over a released record
C12_Witness ==
  /\ Returned("realloc") /\ call.ptr = NULL
  /\ call.ret # NULL /\ call.nsbrk = 0
  /\ call.ret \in DOMAIN call.pre.released
  /\ mem[RetBlock + OFF_MAGIC] = MAGIC_REUSED

\* -------------------------------------------------------------------- C13
PreBlocks == Blocks(call.pre.mem, call.pre.base)

\* field f of record b is what it was before the call
SameField(b, f) == mem[b + f] = call.pre.mem[b + f]

\* flag, size and marker of record b are what they were before the call
SameState(b) ==
  SameField(b, OFF_FREE) /\ SameField(b, OFF_SIZE) /\ SameField(b, OFF_MAGIC)

\* the call added record b at the tail of the chain
Appended(b) ==
  /\ b \notin PreBlocks
  /\ PostChain = Append(PreChain, b)
  /\ mem[b + OFF_FREE] = 0 /\ mem[b + OFF_MAGIC] = MAGIC_NEW
  /\ mem[b + OFF_SIZE] = call.size /\ mem[b + OFF_NEXT] = NULL
  /\ \A o \in PreBlocks :
       /\ SameState(o)
       /\ \/ SameField(o, OFF_NEXT)
          \/ /\ o = PreChain[Len(PreChain)]
             /\ call.pre.mem[o + OFF_NEXT] = NULL /\ mem[o + OFF_NEXT] = b

\* the call took the free record b of the chain
Flipped(b) ==
  /\ b \in PreBlocks
  /\ PostChain = PreChain
  /\ IsFree(call.pre.mem, b)
  /\ mem[b + OFF_FREE] = 0 /\ mem[b + OFF_MAGIC] = MAGIC_REUSED
  /\ SameField(b, OFF_SIZE)
  /\ \A o \in PreBlocks :
       SameField(o, OFF_NEXT) /\ (o # b => SameState(o))

\* C13: a successful allocate either appends exactly one record (in use,
\* marker freshly carved, size as requested) or flips exactly one free
\* record to in use (marker recycled, size unchanged); flag, size and marker
\* of every other record stay, and the only next link that changes is the
\* old tail's, from null to the new record.
C13_AllocateFrame ==
  (Returned("malloc") /\ call.ret # NULL) =>
    Appended(RetBlock) \/ Flipped(RetBlock)

\* -------------------------------------------------------------------- C14
\* all four fields of record b are what they were before the call
SameRecord(b) == SameState(b) /\ SameField(b, OFF_NEXT)

\* C14: release(p) on a live pointer sets the owning record's free flag and
\* gives it the released marker, and changes nothing else: not that
\* record's size or next, not any other record, not the chain, its head or
\* the heap boundary; a release that ends the process instead has changed
\* nothing.  release(absent) changes nothing at all.
C14_ReleaseFrame ==
  call.op = "free" =>
    /\ call.ptr = NULL => status = "ok" /\ Untouched
    /\ (LivePtr /\ status = "ok") =>
         /\ mem = [call.pre.mem EXCEPT ![PreBlock + OFF_FREE] = 1,
                                       ![PreBlock + OFF_MAGIC] = MAGIC_FREED]
         /\ SameField(PreBlock, OFF_SIZE) /\ SameField(PreBlock, OFF_NEXT)
         /\ \A o \in PreBlocks \ {PreBlock} : SameRecord(o)
         /\ PostChain = PreChain
         /\ global_base = call.pre.base /\ brk = call.pre.brk
         /\ call.nsbrk = 0
    /\ (LivePtr /\ status # "ok") => Untouched

\* -------------------------------------------------------------------- C15
\* chain ch1 is the beginning of chain ch2
IsPrefix(ch1, ch2) ==
  Len(ch1) <= Len(ch2) /\ \A i \in 1..Len(ch1) : ch1[i] = ch2[i]

\* the walk from base ends at a null link and meets no record twice
EndsAtNull(m, base) ==
  LET ch == Chain(m, base)
  IN base # NULL =>
       /\ Len(ch) > 0
       /\ m[ch[Len(ch)] + OFF_NEXT] = NULL
       /\ \A i, j \in 1..Len(ch) : ch[i] = ch[j] => i = j

\* C15: over any call that returns the chain only grows at its tail: the head is absent
\* until the first successful allocation and never changes once set, no
\* record leaves the chain, a next link changes only from null to a newly
\* created record, the chain is finite and acyclic, and every record ever
\* created (every pointer handed out, released or not) stays reachable.
C15_AppendOnly ==
  status = "ok" =>
  /\ global_base = NULL => live = << >> /\ released = << >>
  /\ EndsAtNull(mem, global_base)
  /\ \A q \in DOMAIN live \cup DOMAIN released :
       get_block_ptr(q) \in Blocks(mem, global_base)
  /\ call.op # "none" =>
       /\ call.pre.base # NULL => global_base = call.pre.base
       /\ IsPrefix(PreChain, PostChain)
       /\ Len(PostChain) <= Len(PreChain) + 1
       /\ \A o \in PreBlocks :
            \/ SameField(o, OFF_NEXT)
            \/ /\ call.pre.mem[o + OFF_NEXT] = NULL
               /\ mem[o + OFF_NEXT] \notin PreBlocks \cup {NULL}

\* -------------------------------------------------------------------- C16
\* C16: in every state of the running process the chain is in ascending address order: a record's
\* successor starts at or after the end of the record's payload.
C16_AscendingAddresses ==
  status = "ok" => \A b \in Blocks(mem, global_base) :
    mem[b + OFF_NEXT] # NULL =>
      mem[b + OFF_NEXT] >= b + META_SIZE + mem[b + OFF_SIZE]

\* -------------------------------------------------------------------- C17
\* the bytes the records of chain ch account for: size + META_SIZE each
RECURSIVE Footprint(_, _)
Footprint(m, ch) ==
  IF ch = << >> THEN 0
  ELSE META_SIZE + m[Head(ch) + OFF_SIZE] + Footprint(m, Tail(ch))

Allocating == call.op \in {"malloc", "realloc", "calloc"}

\* C17: creating a record grows the heap by exactly size + META_SIZE, a
\* public operation makes at most one growing call, reuse and release do
\* not move the boundary, and in every state of the running process the
\* boundary lies above its initial position by the sum of size + META_SIZE
\* over the records of the chain.
C17_HeapAccounting ==
  status = "ok" =>
    /\ Allocating =>
         /\ call.nsbrk <= 1
         /\ call.nsbrk = 1 => brk = call.pre.brk + call.size + META_SIZE
         /\ call.nsbrk = 0 => brk = call.pre.brk
    /\ call.op = "free" => call.nsbrk = 0 /\ brk = call.pre.brk
    /\ brk - HeapStart = Footprint(mem, Chain(mem, global_base))

\* -------------------------------------------------------------------- C18
\* C18: with two threads in allocate at once the races are real: a caller's
\* sbrk(0) and sbrk(delta) see different boundaries and its assertion
\* fails, two callers link different new records behind the same tail and
\* one record is lost, two callers take the same free record.  They are
\* races: as long as no two calls have run at the same time, none of the
\* three has happened.
C18_RacesNeedOverlap ==
  /\ call.seen \subseteq {"assert", "lost", "double"}
  /\ ~call.raced => call.seen = {}
  /\ "assert" \in call.seen => status = "abort"
  /\ "lost" \in call.seen =>
       \E q \in DOMAIN live \cup DOMAIN released :
         get_block_ptr(q) \notin Blocks(mem, global_base)

\* one run in which all three have happened: the same region handed out
\* twice, a record cut out of the chain, and at last the failed assertion
C18_Witness ==
  /\ call.raced
  /\ call.seen = {"assert", "lost", "double"}
  /\ status = "abort"

\* -------------------------------------------------------------------- C19
\* record b's marker agrees with its free flag
MarkerAgrees(m, b) ==
  IF IsFree(m, b) THEN m[b + OFF_MAGIC] = MAGIC_FREED
  ELSE m[b + OFF_MAGIC] \in {MAGIC_NEW, MAGIC_REUSED}

\* C19: with the operations used within their input constraints, in every
\* state a record of the chain is free exactly when its marker is released
\* and in use exactly when it is freshly carved or recycled, and so the
\* assertions of release never fire for a live pointer.
C19_MarkerMatchesFlag ==
  /\ status = "ok" =>
       \A b \in Blocks(mem, global_base) : MarkerAgrees(mem, b)
  /\ (call.op = "free" /\ LivePtr) => status # "abort"

\* -------------------------------------------------------------------- C20
\* the growing branch of resize was taken and the call returned a region
Grew == Returned("realloc") /\ LivePtr /\ call.size > PreSize /\ call.ret # NULL

\* the length resize hands to memcpy: block_ptr->size as it reads once the
\* inner malloc is done (m is what that malloc gave)
CopyLength(m) == m.s.mem[PreBlock + OFF_SIZE]

\* a copy of n bytes stays inside the two payloads, which share no byte
CopyInBounds(n) ==
  /\ n = PreSize
  /\ n <= mem[RetBlock + OFF_SIZE]
  /\ Disjoint(call.ptr, call.ptr + n, call.ret, call.ret + n)
  /\ Disjoint(call.ptr, call.ptr + PreSize,
              call.ret, call.ret + mem[RetBlock + OFF_SIZE])

\* C20: in the growing branch of resize the bytes copied, the old record's
\* size, never exceed the size of the record that received the new region,
\* and source and destination are disjoint, so the copy stays inside the two
\* payloads, for a freshly carved destination as for a recycled one.
C20_CopyInBounds ==
  Grew => CopyInBounds(CopyLength(malloc(PreState, call.size, call.env)))

====
